---- MODULE Spec2Model ----
(***************************************************************************)
(* A model of packages/backend-common/src/reading/GithubUrlReader.ts:      *)
(*   - readTree: the tarball request, the tar parser's entry/finish events *)
(*     and the promise the caller holds (specifications Spec, LiveSpec);   *)
(*   - read: mode selection, the single request and the mapping of the     *)
(*     transport result to an outcome (specification SpecRead);            *)
(*   - readConfig: the provider list built from the configuration          *)
(*     (specification SpecConfig).                                         *)
(* A string is a sequence of characters, or of longer tokens where the     *)
(* code never looks inside them.  node-fetch and the tar parser are the    *)
(* environment: every outcome they can produce is a nondeterministic       *)
(* choice.                                                                 *)
(***************************************************************************)
EXTENDS Integers, Sequences, FiniteSets, TLC

\* ------------------------------------------------------------------ bounds
MaxEntries == 2      \* entries carried by one response body
MaxPrefixes == 2     \* length of the `paths` argument of readTree
MaxReads == 2        \* read calls made on one reader
MaxProviders == 2    \* entries under integrations.github
NumCalls == 2        \* readTree invocations that run side by side

\* ------------------------------------------------------ strings and inputs
\* the value of an optional string that is not set
Undefined == << "undefined" >>

\* JavaScript truthiness of an optional string
Truthy(s) == s # Undefined /\ s # << >>

\* String.prototype.startsWith
StartsWith(s, p) == /\ Len(p) <= Len(s)
                    /\ SubSeq(s, 1, Len(p)) = p

\* all sequences over S of length at most n
RECURSIVE SeqsUpTo(_, _)
SeqsUpTo(S, n) ==
  IF n = 0 THEN { << >> }
  ELSE LET shorter == SeqsUpTo(S, n - 1)
       IN  shorter \cup { Append(s, x) : s \in { t \in shorter : Len(t) = n - 1 }, x \in S }

\* readTree arguments: parseGitUri(repoUrl).name and branchName
RepoName == << "r" >>
BranchName == << "m" >>

\* `${repoName}-${branchName}/${file}`
TreePrefix(file) == RepoName \o << "-" >> \o BranchName \o << "/" >> \o file

\* the entries an archive is made of: files inside and outside the tree
\* prefixes, directories, and an entry that is neither
Entries ==
  { [ path |-> TreePrefix(<< "a", "/", "f" >>), type |-> "File",
      data |-> << 1, 2 >> ],
    [ path |-> TreePrefix(<< "a", "b" >>), type |-> "File",
      data |-> << 3 >> ],
    [ path |-> << "x", "/", "a" >>, type |-> "File", data |-> << 4 >> ],
    [ path |-> TreePrefix(<< >>), type |-> "Directory", data |-> << >> ],
    [ path |-> TreePrefix(<< "a", "/" >>), type |-> "Directory",
      data |-> << >> ],
    [ path |-> TreePrefix(<< "a", "/", "l" >>), type |-> "SymbolicLink",
      data |-> << >> ] }
PathPrefixes == { << >>, << "a", "/" >>, << "b" >> }

Statuses == { 200, 404, 500 }
\* Response.ok of node-fetch
Ok(st) == st >= 200 /\ st < 300

\* what can be wrong with a response body that is piped into tar.Parse
\*   none       : a well-formed archive, the stream ends cleanly
\*   malformed  : the parser emits 'warn' (it is not strict) and goes on
\*   zlibError  : the parser aborts and emits 'error'
\*   bodyError  : the response stream emits 'error' and never ends
Defects == { "none", "malformed", "zlibError", "bodyError" }

\* --------------------------------------------------------------- variables
VARIABLES
  tpc,        \* position of the readTree call
  paths,      \* readTree's `paths` argument
  response,   \* what fetch gave: "none", "rejected" or "received"
  status,     \* the status of the received response, 0 before
  body,       \* the entries the response body carries
  defect,     \* what is wrong with the body
  parserFed,  \* the body has been piped into the parser
  delivered,  \* number of entries the parser has delivered and drained
  reading,    \* index of the entry the parser is positioned on, 0 if none
  files,      \* the `files` array of the call
  fault,      \* the failure event that occurred while streaming
  promise,    \* the promise readTree returned
  looked,     \* files() has been called
  seen,       \* what the latest files() call returned
  sinks,      \* the concat streams behind the content promises, one per file
  got         \* what the latest content() call yielded

treeVars == << tpc, paths, response, status, body, defect, parserFed,
               delivered, reading, files, fault, promise, looked, seen,
               sinks, got >>

VARIABLES
  config,     \* the ProviderConfig of the reader (this.config)
  rpc,        \* position of the current read call
  reads,      \* number of read calls made
  target,     \* the url argument, as parseGitUri decomposes it
  useApi,     \* the mode chosen by the current call
  request,    \* the request the current call issued
  requests,   \* number of requests issued
  transport,  \* what fetch gave: "none", "noResponse" or "response"
  rstatus,    \* the status of the response, 0 before
  rbody,      \* the bytes of the response body
  outcome,    \* how the current call ended
  result,     \* the bytes the current call returned
  log         \* the outcomes of the calls that ended, in order

readVars == << config, rpc, reads, target, useApi, request, requests,
               transport, rstatus, rbody, outcome, result, log >>

VARIABLES
  cfg,        \* the array under integrations.github
  ci,         \* index of the next entry readConfig looks at
  providers,  \* the `providers` array of readConfig
  cpc         \* position of readConfig: "reading", "returned" or "threw"

configVars == << cfg, ci, providers, cpc >>

VARIABLES
  utarget,    \* the target handed to the URL builders
  uprovider,  \* the provider handed to the URL builders
  apiUrl,     \* what getApiUrl gave
  rawUrl      \* what getRawUrl gave

urlVars == << utarget, uprovider, apiUrl, rawUrl >>

VARIABLES
  inv,        \* the readTree invocations that run side by side
  arrays      \* the `files` arrays, by the invocation that created them

concVars == << inv, arrays >>

vars == << treeVars, readVars, configVars, urlVars, concVars >>

\* ---------------------------------------------------------------- readTree
\* a filter that compares with the bare prefix, without `${repoName}-${branchName}/`
filterBare(path, prefixes) ==
  Len(SelectSeq(prefixes, LAMBDA file : StartsWith(path, file))) # 0

\* the `filter` option of the parser
filter(path, prefixes) ==
  Len(SelectSeq(prefixes, LAMBDA file : StartsWith(path, TreePrefix(file)))) # 0

\* an onentry that puts the new file first
onentryUnshift(fs, entry, k) ==
  IF entry.type = "Directory"
  THEN fs
  ELSE << [ path |-> entry.path, content |-> k ] >> \o fs

\* what `onentry` makes of `files` for the entry at position k: a directory
\* is only resumed, any other entry is piped into a buffer (`content` keeps
\* the entry it reads) and pushed
onentry(fs, entry, k) ==
  IF entry.type = "Directory"
  THEN fs
  ELSE Append(fs, [ path |-> entry.path, content |-> k ])

\* a content promise whose pipe is only set up when content() is called
pipeLater(ss, entry, k) ==
  IF entry.type = "Directory"
  THEN ss
  ELSE Append(ss, [ source |-> 0, bytes |-> << >>, ended |-> FALSE ])

\* the concat stream onentry creates for the entry at position k and pipes
\* the entry into, behind contentPromise
pipeToConcat(ss, entry, k) ==
  IF entry.type = "Directory"
  THEN ss
  ELSE Append(ss, [ source |-> k, bytes |-> << >>, ended |-> FALSE ])

\* the bytes of entry k flow into the streams it is piped into, which end
\* with it
flow(ss, k, data) ==
  [ i \in 1 .. Len(ss) |->
      IF ss[i].source = k
      THEN [ ss[i] EXCEPT !.bytes = @ \o data, !.ended = TRUE ]
      ELSE ss[i] ]

\* content() has not been called
NoContent == [ file |-> 0, settled |-> FALSE, bytes |-> << >> ]

InitTree ==
  /\ tpc = "idle"
  /\ paths = << >>
  /\ response = "none"
  /\ status = 0
  /\ body = << >>
  /\ defect = "none"
  /\ parserFed = FALSE
  /\ delivered = 0
  /\ reading = 0
  /\ files = << >>
  /\ fault = "none"
  /\ promise = "none"
  /\ looked = FALSE
  /\ seen = << >>
  /\ sinks = << >>
  /\ got = NoContent

\* readTree is called: the tarball request is issued and awaited
ReadTreeCall ==
  /\ UNCHANGED << readVars, configVars, urlVars, concVars >>
  /\ UNCHANGED << sinks, got >>
  /\ tpc = "idle"
  /\ \E ps \in SeqsUpTo(PathPrefixes, MaxPrefixes) : paths' = ps
  /\ tpc' = "fetching"
  /\ promise' = "pending"
  /\ UNCHANGED << response, status, body, defect, parserFed, delivered,
                  reading, files, fault, looked, seen >>

\* fetch rejects: the await throws and the async function rejects
FetchReject ==
  /\ UNCHANGED << readVars, configVars, urlVars, concVars >>
  /\ UNCHANGED << sinks, got >>
  /\ tpc = "fetching"
  /\ response' = "rejected"
  /\ promise' = "rejected"
  /\ tpc' = "failed"
  /\ UNCHANGED << paths, status, body, defect, parserFed, delivered,
                  reading, files, fault, looked, seen >>

\* what a response with status st can carry: an archive, or an error page
BodiesOf(st) == IF Ok(st) THEN SeqsUpTo(Entries, MaxEntries) ELSE { << >> }
DefectsOf(st) == IF Ok(st) THEN Defects ELSE { "malformed", "bodyError" }

\* a readTree that resolves right after pipe() instead of in the listener
FetchRespondResolving ==
  /\ UNCHANGED << readVars, configVars, urlVars, concVars >>
  /\ UNCHANGED << sinks, got >>
  /\ tpc = "fetching"
  /\ response' = "received"
  /\ \E st \in Statuses :
       /\ status' = st
       /\ \E b \in BodiesOf(st) : body' = b
       /\ \E d \in DefectsOf(st) : defect' = d
  /\ files' = << >>
  /\ parserFed' = TRUE
  /\ tpc' = "streaming"
  /\ promise' = "fulfilled"
  /\ UNCHANGED << paths, delivered, reading, fault, looked, seen >>

\* fetch resolves with a response of any status: getRepositoryArchive
\* returns it as it is, the parser is created and the body piped into it
FetchRespond ==
  /\ UNCHANGED << readVars, configVars, urlVars, concVars >>
  /\ UNCHANGED << sinks, got >>
  /\ tpc = "fetching"
  /\ response' = "received"
  /\ \E st \in Statuses :
       /\ status' = st
       /\ \E b \in BodiesOf(st) : body' = b
       /\ \E d \in DefectsOf(st) : defect' = d
  /\ files' = << >>
  /\ parserFed' = TRUE
  /\ tpc' = "streaming"
  /\ UNCHANGED << paths, delivered, reading, fault, promise, looked, seen >>

\* the parser reaches the next entry; an entry the filter rejects is drained
\* by the parser itself, any other is handed to onentry, which resumes it
DeliverEntry ==
  /\ UNCHANGED << readVars, configVars, urlVars, concVars >>
  /\ tpc = "streaming"
  /\ reading = 0
  /\ delivered < Len(body)
  /\ LET k == delivered + 1
         entry == body[k]
     IN  /\ reading' = k
         /\ files' = IF filter(entry.path, paths)
                     THEN onentry(files, entry, k)
                     ELSE files
         /\ sinks' = IF filter(entry.path, paths)
                     THEN pipeToConcat(sinks, entry, k)
                     ELSE sinks
  /\ UNCHANGED got
  /\ UNCHANGED << tpc, paths, response, status, body, defect, parserFed,
                  delivered, fault, promise, looked, seen >>

\* an onentry that resumes the entries it keeps, and leaves a directory paused
resumesKept(entry) == entry.type # "Directory"

\* whether onentry sets the entry flowing: a directory is resumed before the
\* return, any other entry after it was piped and pushed
resumes(entry) == IF entry.type = "Directory" THEN TRUE ELSE TRUE

\* the bytes of the current entry have all flowed: the parser drains an
\* entry its filter rejected, any other flows once onentry resumed it
DrainEntry ==
  /\ UNCHANGED << readVars, configVars, urlVars, concVars >>
  /\ tpc = "streaming"
  /\ reading # 0
  /\ filter(body[reading].path, paths) => resumes(body[reading])
  /\ delivered' = reading
  /\ reading' = 0
  /\ sinks' = flow(sinks, reading, body[reading].data)
  /\ UNCHANGED got
  /\ UNCHANGED << tpc, paths, response, status, body, defect, parserFed,
                  files, fault, promise, looked, seen >>

\* the parser emits 'warn'; nothing listens, decoding goes on
ParserWarn ==
  /\ UNCHANGED << readVars, configVars, urlVars, concVars >>
  /\ UNCHANGED << sinks, got >>
  /\ tpc = "streaming"
  /\ defect = "malformed"
  /\ fault = "none"
  /\ fault' = "warn"
  /\ UNCHANGED << tpc, paths, response, status, body, defect, parserFed,
                  delivered, reading, files, promise, looked, seen >>

\* the parser aborts and emits 'error'; only 'finish' has a listener and
\* reject is never called
ParserError ==
  /\ UNCHANGED << readVars, configVars, urlVars, concVars >>
  /\ UNCHANGED << sinks, got >>
  /\ tpc = "streaming"
  /\ defect = "zlibError"
  /\ fault' = "parserError"
  /\ tpc' = "aborted"
  /\ UNCHANGED << paths, response, status, body, defect, parserFed,
                  delivered, reading, files, promise, looked, seen >>

\* the response stream emits 'error': pipe never ends the parser, and
\* reject is never called
BodyError ==
  /\ UNCHANGED << readVars, configVars, urlVars, concVars >>
  /\ UNCHANGED << sinks, got >>
  /\ tpc = "streaming"
  /\ defect = "bodyError"
  /\ fault' = "bodyError"
  /\ tpc' = "stalled"
  /\ UNCHANGED << paths, response, status, body, defect, parserFed,
                  delivered, reading, files, promise, looked, seen >>

\* the parser has consumed the whole input
ParserDone == reading = 0 /\ delivered = Len(body)

\* the parser emits 'finish': the listener resolves the promise
ParserFinish ==
  /\ UNCHANGED << readVars, configVars, urlVars, concVars >>
  /\ UNCHANGED << sinks, got >>
  /\ tpc = "streaming"
  /\ defect \in { "none", "malformed" }
  /\ defect = "malformed" => fault = "warn"
  /\ ParserDone
  /\ promise' = "fulfilled"
  /\ tpc' = "finished"
  /\ UNCHANGED << paths, response, status, body, defect, parserFed,
                  delivered, reading, files, fault, looked, seen >>

\* the caller, holding the fulfilled result, calls files()
CallFiles ==
  /\ UNCHANGED << readVars, configVars, urlVars, concVars >>
  /\ UNCHANGED << sinks, got >>
  /\ promise = "fulfilled"
  /\ looked' = TRUE
  /\ seen' = files
  /\ UNCHANGED << tpc, paths, response, status, body, defect, parserFed,
                  delivered, reading, files, fault, promise >>

\* the caller calls content() of a file of the fulfilled result: the
\* promise created in onentry is returned, the stream is not touched
CallContent ==
  /\ UNCHANGED << readVars, configVars, urlVars, concVars >>
  /\ promise = "fulfilled"
  /\ \E i \in 1 .. Len(files) :
       got' = [ file |-> i, settled |-> sinks[i].ended,
                bytes |-> sinks[i].bytes ]
  /\ UNCHANGED << tpc, paths, response, status, body, defect, parserFed,
                  delivered, reading, files, fault, promise, looked, seen,
                  sinks >>

\* -------------------------------------------------------------------- read
\* the tokens the request headers are built from
AcceptRaw == << "application/vnd.github.v3.raw" >>
TokenWord == << "token " >>

\* the readers read is tried on: every combination of unset, empty and set
ReaderConfigs ==
  [ host : { << "ghe.example.net" >> },
    apiBaseUrl : { Undefined, << >>, << "A" >> },
    rawBaseUrl : { Undefined, << >>, << "R" >> },
    token : { Undefined, << >>, << "t" >> } ]

\* what parseGitUri makes of the url argument; a missing part is ''
Targets ==
  { [ parses |-> TRUE, owner |-> "o", name |-> "n", ref |-> "m",
      filepathtype |-> "blob", filepath |-> << "a" >> ],
    [ parses |-> TRUE, owner |-> "o", name |-> "n", ref |-> "m",
      filepathtype |-> "raw", filepath |-> << "/", "a" >> ],
    [ parses |-> TRUE, owner |-> "", name |-> "n", ref |-> "m",
      filepathtype |-> "blob", filepath |-> << "a" >> ],
    [ parses |-> TRUE, owner |-> "o", name |-> "", ref |-> "m",
      filepathtype |-> "blob", filepath |-> << "a" >> ],
    [ parses |-> TRUE, owner |-> "o", name |-> "n", ref |-> "",
      filepathtype |-> "", filepath |-> << >> ],
    [ parses |-> TRUE, owner |-> "o", name |-> "n", ref |-> "m",
      filepathtype |-> "tree", filepath |-> << "a" >> ],
    [ parses |-> FALSE, owner |-> "", name |-> "", ref |-> "",
      filepathtype |-> "", filepath |-> << >> ] }

NoTarget == [ parses |-> FALSE, owner |-> "", name |-> "", ref |-> "",
              filepathtype |-> "", filepath |-> << >> ]

\* the bodies a response to read can have
ReadBodies == { << >>, << 7 >>, << 7, 8 >> }

\* filepath.replace(/^\//, '')
pathWithoutSlash(filepath) ==
  IF filepath # << >> /\ Head(filepath) = "/" THEN Tail(filepath) ELSE filepath

\* a test that forgets the ref
InvalidTargetNoRef(t) ==
  \/ ~t.parses
  \/ t.owner = ""
  \/ t.name = ""
  \/ (t.filepathtype # "blob" /\ t.filepathtype # "raw")

\* a test that forgets the path kind
InvalidTargetAnyKind(t) ==
  \/ ~t.parses
  \/ t.owner = ""
  \/ t.name = ""
  \/ t.ref = ""

\* the test both URL builders make on the parts of the target
InvalidTarget(t) ==
  \/ ~t.parses
  \/ t.owner = ""
  \/ t.name = ""
  \/ t.ref = ""
  \/ (t.filepathtype # "blob" /\ t.filepathtype # "raw")

\* what the builders throw, rethrown as `Incorrect URL`
UrlError == [ kind |-> "error" ]

\* new URL(...) throws when the text has no scheme, as it has when the base
\* URL is unset or empty
getApiUrl(t, provider) ==
  IF InvalidTarget(t) \/ ~Truthy(provider.apiBaseUrl)
  THEN UrlError
  ELSE [ kind |-> "api", base |-> provider.apiBaseUrl, owner |-> t.owner,
         name |-> t.name, path |-> pathWithoutSlash(t.filepath),
         ref |-> t.ref ]

getRawUrl(t, provider) ==
  IF InvalidTarget(t) \/ ~Truthy(provider.rawBaseUrl)
  THEN UrlError
  ELSE [ kind |-> "raw", base |-> provider.rawBaseUrl, owner |-> t.owner,
         name |-> t.name, path |-> pathWithoutSlash(t.filepath),
         ref |-> t.ref ]

getApiRequestOptions(provider) ==
  [ Accept |-> AcceptRaw,
    Authorization |-> IF Truthy(provider.token)
                      THEN TokenWord \o provider.token
                      ELSE Undefined ]

\* options for the raw endpoint that leave the token out
getRawRequestOptionsAnonymous(provider) ==
  [ Accept |-> Undefined, Authorization |-> Undefined ]

getRawRequestOptions(provider) ==
  [ Accept |-> Undefined,
    Authorization |-> IF Truthy(provider.token)
                      THEN TokenWord \o provider.token
                      ELSE Undefined ]

\* the targets the builders are tried on: every combination of the parts
\* parseGitUri can give, and a url it cannot parse
UrlTargets ==
  [ parses : { TRUE }, owner : { "", "o" }, name : { "", "n" },
    ref : { "", "m" }, filepathtype : { "blob", "raw", "tree", "" },
    filepath : { << "a" >>, << "/", "a" >> } ]
  \cup { NoTarget }

\* the URL has not been asked for
NotBuilt == [ kind |-> "none" ]

InitUrl ==
  /\ utarget \in UrlTargets
  /\ uprovider \in ReaderConfigs
  /\ apiUrl = NotBuilt
  /\ rawUrl = NotBuilt

\* the builders are not used
UrlUnused ==
  /\ utarget = NoTarget
  /\ uprovider = [ host |-> << "ghe.example.net" >>, apiBaseUrl |-> Undefined,
                   rawBaseUrl |-> Undefined, token |-> Undefined ]
  /\ apiUrl = NotBuilt
  /\ rawUrl = NotBuilt

\* getApiUrl(target, provider) is called
BuildApiUrl ==
  /\ UNCHANGED << treeVars, readVars, configVars, concVars >>
  /\ apiUrl = NotBuilt
  /\ apiUrl' = getApiUrl(utarget, uprovider)
  /\ UNCHANGED << utarget, uprovider, rawUrl >>

\* getRawUrl(target, provider) is called
BuildRawUrl ==
  /\ UNCHANGED << treeVars, readVars, configVars, concVars >>
  /\ rawUrl = NotBuilt
  /\ rawUrl' = getRawUrl(utarget, uprovider)
  /\ UNCHANGED << utarget, uprovider, apiUrl >>

\* a mode selection that asks for a token in every case
UseApiTokenOnly(c) == Truthy(c.apiBaseUrl) /\ Truthy(c.token)

\* this.config.apiBaseUrl && (this.config.token || !this.config.rawBaseUrl)
UseApi(c) == Truthy(c.apiBaseUrl) /\ (Truthy(c.token) \/ ~Truthy(c.rawBaseUrl))

NoRequest == [ kind |-> "none" ]

\* an error mapping that forgets the 404 case
FailureOfPlain(st) == "RemoteError"

\* the error thrown for a response that is not ok
FailureOf(st) == IF st = 404 THEN "NotFoundError" ELSE "RemoteError"

InitRead ==
  /\ config \in ReaderConfigs
  /\ rpc = "idle"
  /\ reads = 0
  /\ target = NoTarget
  /\ useApi = FALSE
  /\ request = NoRequest
  /\ requests = 0
  /\ transport = "none"
  /\ rstatus = 0
  /\ rbody = << >>
  /\ outcome = "none"
  /\ result = << >>
  /\ log = << >>

\* the reader is not used
ReadUnused ==
  /\ config = [ host |-> << "ghe.example.net" >>, apiBaseUrl |-> Undefined,
                rawBaseUrl |-> Undefined, token |-> Undefined ]
  /\ rpc = "idle"
  /\ reads = 0
  /\ target = NoTarget
  /\ useApi = FALSE
  /\ request = NoRequest
  /\ requests = 0
  /\ transport = "none"
  /\ rstatus = 0
  /\ rbody = << >>
  /\ outcome = "none"
  /\ result = << >>
  /\ log = << >>

\* read is called: the mode is chosen, the URL and the options are built
\* and, unless the builder throws, the request is issued
ReadCall ==
  /\ UNCHANGED << treeVars, configVars, urlVars, concVars >>
  /\ rpc \in { "idle", "done" }
  /\ reads < MaxReads
  /\ reads' = reads + 1
  /\ \E t \in Targets :
       LET api == UseApi(config)
           ghUrl == IF api THEN getApiUrl(t, config) ELSE getRawUrl(t, config)
           options == IF api THEN getApiRequestOptions(config)
                             ELSE getRawRequestOptions(config)
       IN  /\ target' = t
           /\ useApi' = api
           /\ IF ghUrl.kind = "error"
              THEN /\ request' = NoRequest
                   /\ requests' = requests
                   /\ outcome' = "IncorrectURL"
                   /\ log' = Append(log, "IncorrectURL")
                   /\ rpc' = "done"
              ELSE /\ request' = [ kind |-> "GET", url |-> ghUrl,
                                   headers |-> options ]
                   /\ requests' = requests + 1
                   /\ outcome' = "none"
                   /\ log' = log
                   /\ rpc' = "fetching"
  /\ transport' = "none"
  /\ rstatus' = 0
  /\ rbody' = << >>
  /\ result' = << >>
  /\ UNCHANGED config

\* a read that tries the request once more when fetch rejects
ReadFetchRejectRetry ==
  /\ UNCHANGED << treeVars, configVars, urlVars, concVars >>
  /\ rpc = "fetching"
  /\ transport = "none"
  /\ transport' = "noResponse"
  /\ requests' = requests + 1
  /\ UNCHANGED << config, rpc, reads, target, useApi, request, rstatus,
                  rbody, outcome, result, log >>

\* fetch rejects: `Unable to read` is thrown
ReadFetchReject ==
  /\ UNCHANGED << treeVars, configVars, urlVars, concVars >>
  /\ rpc = "fetching"
  /\ transport' = "noResponse"
  /\ outcome' = "TransportError"
  /\ log' = Append(log, "TransportError")
  /\ rpc' = "done"
  /\ UNCHANGED << config, reads, target, useApi, request, requests, rstatus,
                  rbody, result >>

\* fetch resolves with a response: if it is ok its body is read, else
\* NotFoundError or a plain Error is thrown
ReadFetchRespond ==
  /\ UNCHANGED << treeVars, configVars, urlVars, concVars >>
  /\ rpc = "fetching"
  /\ transport' = "response"
  /\ \E st \in Statuses, b \in ReadBodies :
       /\ rstatus' = st
       /\ rbody' = b
       /\ IF Ok(st)
          THEN /\ rpc' = "buffering"
               /\ UNCHANGED << outcome, log >>
          ELSE /\ outcome' = FailureOf(st)
               /\ log' = Append(log, FailureOf(st))
               /\ rpc' = "done"
  /\ UNCHANGED << config, reads, target, useApi, request, requests, result >>

\* response.buffer() resolves with the bytes of the body
ReadBufferDone ==
  /\ UNCHANGED << treeVars, configVars, urlVars, concVars >>
  /\ rpc = "buffering"
  /\ result' = rbody
  /\ outcome' = "bytes"
  /\ log' = Append(log, "bytes")
  /\ rpc' = "done"
  /\ UNCHANGED << config, reads, target, useApi, request, requests,
                  transport, rstatus, rbody >>

\* response.buffer() rejects: the body could not be read to its end, and
\* the returned promise rejects with that error
ReadBufferFail ==
  /\ UNCHANGED << treeVars, configVars, urlVars, concVars >>
  /\ rpc = "buffering"
  /\ outcome' = "BodyReadError"
  /\ log' = Append(log, "BodyReadError")
  /\ rpc' = "done"
  /\ UNCHANGED << config, reads, target, useApi, request, requests,
                  transport, rstatus, rbody, result >>

\* -------------------------------------------------------------- readConfig
GithubCom == << "github.com" >>
DefaultApi == << "https://api.github.com" >>
DefaultRaw == << "https://raw.githubusercontent.com" >>

\* the entries the configuration can hold
ConfigEntries ==
  [ host : { Undefined, GithubCom, << "ghe.example.net" >> },
    apiBaseUrl : { Undefined, << "/" >>, << "A", "/", "/" >> },
    rawBaseUrl : { Undefined, << "R" >>, << "R", "/" >> },
    token : { Undefined, << "t" >> } ]

\* s.replace(/\/+$/, '')
RECURSIVE StripTrailingSlashes(_)
StripTrailingSlashes(s) ==
  IF s # << >> /\ s[Len(s)] = "/"
  THEN StripTrailingSlashes(SubSeq(s, 1, Len(s) - 1))
  ELSE s

\* an iteration that makes its test before the trailing slashes are taken off
ReadEntryTestFirst(e) ==
  LET host == IF e.host = Undefined THEN GithubCom ELSE e.host
      api == IF Truthy(e.apiBaseUrl) THEN e.apiBaseUrl
             ELSE IF host = GithubCom THEN DefaultApi ELSE e.apiBaseUrl
      raw == IF Truthy(e.rawBaseUrl) THEN e.rawBaseUrl
             ELSE IF host = GithubCom THEN DefaultRaw ELSE e.rawBaseUrl
  IN  [ throws |-> ~Truthy(api) /\ ~Truthy(raw),
        provider |-> [ host |-> host,
                       apiBaseUrl |-> IF Truthy(api)
                                      THEN StripTrailingSlashes(api) ELSE api,
                       rawBaseUrl |-> IF Truthy(raw)
                                      THEN StripTrailingSlashes(raw) ELSE raw,
                       token |-> e.token ] ]

\* one iteration of the loop over the explicit providers
ReadEntry(e) ==
  LET host == IF e.host = Undefined THEN GithubCom ELSE e.host
      apiBaseUrl == IF Truthy(e.apiBaseUrl)
                    THEN StripTrailingSlashes(e.apiBaseUrl)
                    ELSE IF host = GithubCom THEN DefaultApi ELSE e.apiBaseUrl
      rawBaseUrl == IF Truthy(e.rawBaseUrl)
                    THEN StripTrailingSlashes(e.rawBaseUrl)
                    ELSE IF host = GithubCom THEN DefaultRaw ELSE e.rawBaseUrl
  IN  [ throws |-> ~Truthy(apiBaseUrl) /\ ~Truthy(rawBaseUrl),
        provider |-> [ host |-> host, apiBaseUrl |-> apiBaseUrl,
                       rawBaseUrl |-> rawBaseUrl, token |-> e.token ] ]

\* the provider that is put in when no explicit one is for github.com
Synthetic == [ host |-> GithubCom, apiBaseUrl |-> DefaultApi,
               rawBaseUrl |-> DefaultRaw, token |-> Undefined ]

\* a test that only looks whether any provider was configured
SomeProvider(ps) == Len(ps) > 0

\* providers.some(p => p.host === 'github.com')
SomeGithubCom(ps) == \E i \in 1 .. Len(ps) : ps[i].host = GithubCom

InitConfig ==
  /\ cfg \in SeqsUpTo(ConfigEntries, MaxProviders)
  /\ ci = 1
  /\ providers = << >>
  /\ cpc = "reading"

\* readConfig is not called
ConfigUnused ==
  /\ cfg = << >>
  /\ ci = 1
  /\ providers = << >>
  /\ cpc = "idle"

\* a loop that leaves out the entry it cannot use and goes on
ConfigEntrySkipping ==
  /\ UNCHANGED << treeVars, readVars, urlVars, concVars >>
  /\ cpc = "reading"
  /\ ci <= Len(cfg)
  /\ LET r == ReadEntry(cfg[ci])
     IN  /\ providers' = IF r.throws THEN providers
                                     ELSE Append(providers, r.provider)
         /\ ci' = ci + 1
         /\ UNCHANGED cpc
  /\ UNCHANGED cfg

\* the loop body for the next explicit entry: the provider is pushed, or
\* the error is thrown and nothing is returned
ConfigEntry ==
  /\ UNCHANGED << treeVars, readVars, urlVars, concVars >>
  /\ cpc = "reading"
  /\ ci <= Len(cfg)
  /\ LET r == ReadEntry(cfg[ci])
     IN  IF r.throws
         THEN /\ cpc' = "threw"
              /\ UNCHANGED << ci, providers >>
         ELSE /\ providers' = Append(providers, r.provider)
              /\ ci' = ci + 1
              /\ UNCHANGED cpc
  /\ UNCHANGED cfg

\* after the loop: the github.com provider is added if none is there, and
\* the list is returned
ConfigReturn ==
  /\ UNCHANGED << treeVars, readVars, urlVars, concVars >>
  /\ cpc = "reading"
  /\ ci > Len(cfg)
  /\ providers' = IF ~SomeGithubCom(providers)
                  THEN Append(providers, Synthetic)
                  ELSE providers
  /\ cpc' = "returned"
  /\ UNCHANGED << cfg, ci >>

\* ------------------------------------------------ calls that run side by side
Calls == 1 .. NumCalls

\* the arguments and the archives of the invocations that run side by side
ConcPaths == << << >> >>
ConcBodies ==
  { << [ path |-> TreePrefix(<< "a", "/", "f" >>), type |-> "File",
         data |-> << 1, 2 >> ],
       [ path |-> TreePrefix(<< "a", "/" >>), type |-> "Directory",
         data |-> << >> ] >>,
    << [ path |-> TreePrefix(<< "a", "b" >>), type |-> "File",
         data |-> << 3 >> ],
       [ path |-> << "x", "/", "a" >>, type |-> "File",
         data |-> << 4 >> ] >> }

\* the reader the calls are made on
ConcConfig == [ host |-> << "ghe.example.net" >>, apiBaseUrl |-> << "A" >>,
                rawBaseUrl |-> << "R" >>, token |-> << "t" >> ]

NotStarted == [ pc |-> "idle", body |-> << >>, delivered |-> 0,
                reading |-> 0, promise |-> "none" ]

\* a `files` array that is a field of the reader, one for all invocations
filesOfReader(c) == 1

\* the array invocation c pushes to and hands out: `const files` is created
\* inside readTree, one per invocation
filesOf(c) == c

\* what files() of invocation c returns
FilesSeenBy(c) == arrays[filesOf(c)]

InitConc ==
  /\ config = ConcConfig
  /\ rpc = "idle"
  /\ reads = 0
  /\ target = NoTarget
  /\ useApi = FALSE
  /\ request = NoRequest
  /\ requests = 0
  /\ transport = "none"
  /\ rstatus = 0
  /\ rbody = << >>
  /\ outcome = "none"
  /\ result = << >>
  /\ log = << >>
  /\ inv = [ c \in Calls |-> NotStarted ]
  /\ arrays = [ c \in Calls |-> << >> ]

\* no calls run side by side
ConcUnused ==
  /\ inv = [ c \in Calls |-> NotStarted ]
  /\ arrays = [ c \in Calls |-> << >> ]

\* invocation c of readTree starts: the tarball request is issued
TreeCall(c) ==
  /\ UNCHANGED << treeVars, readVars, configVars, urlVars >>
  /\ inv[c].pc = "idle"
  /\ inv' = [ inv EXCEPT ![c].pc = "fetching", ![c].promise = "pending" ]
  /\ UNCHANGED arrays

\* the request of invocation c is rejected
TreeFetchReject(c) ==
  /\ UNCHANGED << treeVars, readVars, configVars, urlVars >>
  /\ inv[c].pc = "fetching"
  /\ inv' = [ inv EXCEPT ![c].pc = "failed", ![c].promise = "rejected" ]
  /\ UNCHANGED arrays

\* the request of invocation c is answered: its array and its parser are
\* created and the body is piped into the parser
TreeFetchRespond(c) ==
  /\ UNCHANGED << treeVars, readVars, configVars, urlVars >>
  /\ inv[c].pc = "fetching"
  /\ \E b \in ConcBodies :
       inv' = [ inv EXCEPT ![c].pc = "streaming", ![c].body = b ]
  /\ arrays' = [ arrays EXCEPT ![filesOf(c)] = << >> ]

\* the parser of invocation c reaches its next entry
TreeEntry(c) ==
  /\ UNCHANGED << treeVars, readVars, configVars, urlVars >>
  /\ inv[c].pc = "streaming"
  /\ inv[c].reading = 0
  /\ inv[c].delivered < Len(inv[c].body)
  /\ LET k == inv[c].delivered + 1
         entry == inv[c].body[k]
     IN  /\ inv' = [ inv EXCEPT ![c].reading = k ]
         /\ arrays' = [ arrays EXCEPT ![filesOf(c)] =
                          IF filter(entry.path, ConcPaths)
                          THEN onentry(@, entry, k)
                          ELSE @ ]

\* the entry the parser of invocation c stands on is drained
TreeDrain(c) ==
  /\ UNCHANGED << treeVars, readVars, configVars, urlVars >>
  /\ inv[c].pc = "streaming"
  /\ inv[c].reading # 0
  /\ inv' = [ inv EXCEPT ![c].delivered = inv[c].reading, ![c].reading = 0 ]
  /\ UNCHANGED arrays

\* the parser of invocation c emits 'finish'
TreeFinish(c) ==
  /\ UNCHANGED << treeVars, readVars, configVars, urlVars >>
  /\ inv[c].pc = "streaming"
  /\ inv[c].reading = 0
  /\ inv[c].delivered = Len(inv[c].body)
  /\ inv' = [ inv EXCEPT ![c].pc = "finished", ![c].promise = "fulfilled" ]
  /\ UNCHANGED arrays

\* ---------------------------------------------------------- specifications
Init == InitTree /\ ReadUnused /\ ConfigUnused /\ UrlUnused /\ ConcUnused

Next ==
  \/ ReadTreeCall
  \/ FetchReject
  \/ FetchRespond
  \/ DeliverEntry
  \/ DrainEntry
  \/ ParserWarn
  \/ ParserError
  \/ BodyError
  \/ ParserFinish
  \/ CallFiles
  \/ CallContent

Spec == Init /\ [][Next]_vars

\* the event loop runs every handler that is ready, and every stream event
\* that is due is delivered
LiveSpec ==
  /\ Spec
  /\ WF_vars(ReadTreeCall)
  /\ WF_vars(FetchReject \/ FetchRespond)
  /\ WF_vars(DeliverEntry)
  /\ WF_vars(DrainEntry)
  /\ WF_vars(ParserWarn)
  /\ WF_vars(ParserError)
  /\ WF_vars(BodyError)
  /\ WF_vars(ParserFinish)

NextRead ==
  \/ ReadCall
  \/ ReadFetchReject
  \/ ReadFetchRespond
  \/ ReadBufferDone
  \/ ReadBufferFail

InitReader == InitTree /\ InitRead /\ ConfigUnused /\ UrlUnused /\ ConcUnused

SpecRead == InitReader /\ [][NextRead]_vars

NextConfig ==
  \/ ConfigEntry
  \/ ConfigReturn

InitProviders == InitTree /\ ReadUnused /\ InitConfig /\ UrlUnused /\ ConcUnused

SpecConfig == InitProviders /\ [][NextConfig]_vars

NextUrl ==
  \/ BuildApiUrl
  \/ BuildRawUrl

InitBuilders == InitTree /\ ReadUnused /\ ConfigUnused /\ InitUrl /\ ConcUnused

SpecUrl == InitBuilders /\ [][NextUrl]_vars

NextConc ==
  \/ \E c \in Calls : TreeCall(c)
  \/ \E c \in Calls : TreeFetchReject(c)
  \/ \E c \in Calls : TreeFetchRespond(c)
  \/ \E c \in Calls : TreeEntry(c)
  \/ \E c \in Calls : TreeDrain(c)
  \/ \E c \in Calls : TreeFinish(c)
  \/ ReadCall
  \/ ReadFetchReject
  \/ ReadFetchRespond
  \/ ReadBufferDone
  \/ ReadBufferFail

InitCalls == InitTree /\ ConfigUnused /\ UrlUnused /\ InitConc

SpecConc == InitCalls /\ [][NextConc]_vars

\* ------------------------------------------------------- readTree: claims
\* the entries of the body at positions 1..n that readTree retains
Retained(k) == body[k].type # "Directory"
               /\ \E i \in 1 .. Len(paths) :
                    StartsWith(body[k].path, TreePrefix(paths[i]))

\* C1: the promise is fulfilled, and files() can be called, only after the
\* parser has signalled 'finish', when every entry of the body has been
\* delivered and drained; a list obtained from files() lacks no entry that
\* is retained later.
C1_ResultOnlyAfterFinish ==
  (promise = "fulfilled" \/ looked)
    => /\ tpc = "finished"
       /\ reading = 0
       /\ delivered = Len(body)
       /\ looked => seen = files

C1_Witness ==
  /\ looked
  /\ Len(body) >= 2
  /\ Len(seen) >= 1
  /\ Len(seen) < Len(body)

\* C2: in the list of a fulfilled readTree there is no directory entry, and
\* a non-directory entry of the archive is in the list if and only if its
\* path starts with `${repoName}-${branchName}/${prefix}` for one of the
\* prefixes (none when the prefix list is empty).
C2_RetainedIffPrefix ==
  promise = "fulfilled"
    => /\ \A i \in 1 .. Len(files) :
            /\ files[i].content \in 1 .. Len(body)
            /\ body[files[i].content].type # "Directory"
            /\ files[i].path = body[files[i].content].path
       /\ \A k \in 1 .. Len(body) :
            body[k].type # "Directory" =>
              ((\E i \in 1 .. Len(files) : files[i].content = k)
                 <=> (\E j \in 1 .. Len(paths) :
                        StartsWith(body[k].path, TreePrefix(paths[j]))))

C2_Witness ==
  /\ promise = "fulfilled"
  /\ Len(paths) >= 1
  /\ Len(body) >= 2
  /\ Len(files) = 1
  /\ \E k \in 1 .. Len(body) : body[k].type = "File" /\ ~Retained(k)

\* C3: a readTree call that has begun is eventually fulfilled or rejected.
C3_EventuallySettled ==
  (promise = "pending") ~> (promise \in { "fulfilled", "rejected" })

\* C4: when the tarball request fails (no response, or a response with a
\* non-success status) the call is rejected, the body is never fed to the
\* parser and the call is never fulfilled.
C4_FailedRequestFails ==
  /\ response = "rejected" => (promise = "rejected" /\ ~parserFed)
  /\ (response = "received" /\ ~Ok(status))
       => (promise = "rejected" /\ ~parserFed)

\* C5: once a failure has occurred while streaming (malformed archive,
\* entry read failure, errored response body) the promise is rejected; it
\* is not fulfilled with the entries decoded so far.
C5_StreamFailureRejects ==
  fault # "none" => promise = "rejected"

\* the files are in the order of their entries in the archive, and files()
\* returns them so
C9_OrderInv ==
  /\ \A i, j \in 1 .. Len(files) :
       i < j => files[i].content < files[j].content
  /\ looked => seen = files

\* from FINISHED on no entry is added, and a later files() call returns
\* what the earlier one did
C9_Fixed ==
  /\ promise = "fulfilled" => (promise' = "fulfilled" /\ files' = files)
  /\ looked => seen' = seen

\* C9: the order invariant holds throughout and every step keeps the
\* sequence of a fulfilled call, and what files() returned, as they are.
C9_ArchiveOrderFixed == [](C9_OrderInv) /\ [][C9_Fixed]_vars

C9_Witness ==
  /\ looked
  /\ Len(seen) >= 2
  /\ seen[1].path # seen[2].path

\* C14: the parser delivers an entry only when the one before it has been
\* drained, and no entry, whether a directory, a retained file or a file
\* the filter rejects, is left undrained: for a well-formed archive whose
\* body ends without error the parser signals completion and the promise
\* is fulfilled.
C14_OneAtATime ==
  (reading' # reading /\ reading' # 0)
    => (reading = 0 /\ reading' = delivered + 1 /\ delivered' = delivered)

C14_DrainedThenFulfilled ==
  /\ [][C14_OneAtATime]_vars
  /\ (reading # 0 /\ defect = "none") ~> (reading = 0)
  /\ (tpc = "streaming" /\ defect = "none") ~> (promise = "fulfilled")

C14_Witness ==
  /\ promise = "fulfilled"
  /\ defect = "none"
  /\ Len(body) >= 2
  /\ \E k \in 1 .. Len(body) :
       body[k].type = "Directory" /\ filter(body[k].path, paths)
  /\ \E k \in 1 .. Len(body) :
       body[k].type = "File" /\ ~filter(body[k].path, paths)

\* C15: the content of a retained file is captured while the parser stands
\* on its entry: the pipe into the buffer is set up in the step that
\* delivers the entry, the buffer holds exactly the bytes of the entry once
\* the entry is drained, so for every file of a fulfilled call; content()
\* yields those bytes, does not touch the archive stream, and yields the
\* same bytes when called again.
C15_CapturedInv ==
  /\ Len(sinks) = Len(files)
  /\ \A i \in 1 .. Len(files) :
       /\ sinks[i].source = files[i].content
       /\ (files[i].content <= delivered \/ promise = "fulfilled")
            => /\ sinks[i].ended
               /\ sinks[i].bytes = body[files[i].content].data
  /\ got.file # 0
       => /\ got.settled
          /\ got.bytes = body[files[got.file].content].data

C15_ContentStep ==
  /\ Len(files') > Len(files)
       => (reading' = files'[Len(files')].content /\ reading = 0)
  /\ got' # got
       => UNCHANGED << body, delivered, reading, sinks, files, tpc >>
  /\ (got.file # 0 /\ got'.file = got.file) => got' = got

C15_EagerCapture == [](C15_CapturedInv) /\ [][C15_ContentStep]_vars

C15_Witness ==
  /\ got.file = 2
  /\ got.bytes = << 1, 2 >>
  /\ sinks[1].bytes = << 3 >>

\* ----------------------------------------------------------- read: claims
\* C6: for a reader with at least one base URL present (set and not empty),
\* every read call uses the API endpoint exactly when apiBaseUrl is present
\* and a token is configured or rawBaseUrl is absent, and the raw endpoint
\* otherwise; the four rows of the truth table, and the request is built on
\* the base URL of the endpoint chosen.
C6_ModeSelection ==
  LET a == Truthy(config.apiBaseUrl)
      r == Truthy(config.rawBaseUrl)
      t == Truthy(config.token)
  IN  (rpc # "idle" /\ (a \/ r))
        => /\ (a /\ ~r) => useApi
           /\ (~a /\ r) => ~useApi
           /\ (a /\ r /\ t) => useApi
           /\ (a /\ r /\ ~t) => ~useApi
           /\ request.kind = "GET"
                => /\ request.url.kind = (IF useApi THEN "api" ELSE "raw")
                   /\ request.url.base = (IF useApi THEN config.apiBaseUrl
                                                    ELSE config.rawBaseUrl)

C6_Witness ==
  /\ reads >= 2
  /\ request.kind = "GET"
  /\ useApi
  /\ Truthy(config.rawBaseUrl)
  /\ Truthy(config.token)

\* C7 as stated: a read call whose request was issued ends with
\* TransportError when no response was obtained, NotFoundError for status
\* 404, RemoteError for any other non-success status, and for a success
\* response with the bytes of the body unchanged.
C7_OutcomeByTransport ==
  (rpc = "done" /\ request.kind = "GET")
    => /\ transport = "noResponse" => outcome = "TransportError"
       /\ (transport = "response" /\ rstatus = 404)
            => outcome = "NotFoundError"
       /\ (transport = "response" /\ ~Ok(rstatus) /\ rstatus # 404)
            => outcome = "RemoteError"
       /\ (transport = "response" /\ Ok(rstatus))
            => (outcome = "bytes" /\ result = rbody)

\* C7 as amended: as above, but a success response gives the bytes of the
\* body unchanged only when the body is read to its end; when reading it
\* fails the call fails with that error.  Bytes are returned for a success
\* response only.
C7_OutcomeByTransportAndBody ==
  (rpc = "done" /\ request.kind = "GET")
    => /\ transport = "noResponse" => outcome = "TransportError"
       /\ (transport = "response" /\ rstatus = 404)
            => outcome = "NotFoundError"
       /\ (transport = "response" /\ ~Ok(rstatus) /\ rstatus # 404)
            => outcome = "RemoteError"
       /\ (transport = "response" /\ Ok(rstatus))
            => \/ outcome = "bytes" /\ result = rbody
               \/ outcome = "BodyReadError"
       /\ outcome = "bytes" => (transport = "response" /\ Ok(rstatus))
       /\ outcome # "bytes" => result = << >>

C7_Witness ==
  /\ rpc = "done"
  /\ Len(log) >= 2
  /\ log[1] = "NotFoundError"
  /\ outcome = "bytes"
  /\ result # << >>

\* C8 as stated: every read call issues exactly one request, so after n
\* calls n requests have been issued.
C8_OneRequestPerCall == requests = reads

\* C8 as amended: every read call whose target resolves to an endpoint URL
\* issues exactly one request, whatever the transport answers, and a call
\* that fails with `Incorrect URL` issues none.
C8_OneRequestPerResolvedCall ==
  requests = reads - Cardinality({ i \in 1 .. Len(log) : log[i] = "IncorrectURL" })

C8_Witness ==
  /\ reads >= 2
  /\ requests = 2
  /\ Len(log) >= 2
  /\ log[1] = "TransportError"
  /\ log[2] = "RemoteError"

\* C13: the request read issues carries `Authorization: token {token}`
\* exactly when the reader has a token, on the API and on the raw endpoint
\* alike, and carries the raw-content Accept header exactly when the API
\* endpoint was chosen.
C13_RequestHeaders ==
  request.kind = "GET"
    => /\ Truthy(config.token)
            => request.headers.Authorization = << "token " >> \o config.token
       /\ ~Truthy(config.token) => request.headers.Authorization = Undefined
       /\ request.url.kind = "api"
            => request.headers.Accept = << "application/vnd.github.v3.raw" >>
       /\ request.url.kind = "raw" => request.headers.Accept = Undefined

C13_Witness ==
  /\ request.kind = "GET"
  /\ request.url.kind = "raw"
  /\ request.headers.Authorization = << "token ", "t" >>
  /\ request.headers.Accept = Undefined

\* C17: a read call with a malformed target ends with the parse error in
\* the step of the call itself and leaves the number of requests as it
\* was; a request is issued only in a call whose target was resolved to an
\* endpoint URL, and it is the request for that URL.
C17_RequestResolved ==
  request.kind = "GET"
    => /\ target.parses
       /\ target.owner # "" /\ target.name # "" /\ target.ref # ""
       /\ target.filepathtype \in { "blob", "raw" }
       /\ request.url.kind \in { "api", "raw" }
       /\ request.url.owner = target.owner
       /\ request.url.name = target.name
       /\ request.url.ref = target.ref

C17_CallStep ==
  /\ requests' # requests => (reads' = reads + 1 /\ request'.kind = "GET")
  /\ (/\ reads' = reads + 1
      /\ \/ ~target'.parses
         \/ target'.owner = "" \/ target'.name = "" \/ target'.ref = ""
         \/ target'.filepathtype \notin { "blob", "raw" })
       => /\ requests' = requests
          /\ request' = NoRequest
          /\ outcome' = "IncorrectURL"
          /\ rpc' = "done"

C17_ParseBeforeRequest == [](C17_RequestResolved) /\ [][C17_CallStep]_vars

C17_Witness ==
  /\ Truthy(config.apiBaseUrl)
  /\ Truthy(config.rawBaseUrl)
  /\ log = << "TransportError", "IncorrectURL" >>
  /\ reads = 2
  /\ requests = 1
  /\ outcome = "IncorrectURL"
  /\ target.filepathtype = "tree"

\* ----------------------------------------------------- readConfig: claims
\* C10: what readConfig returns is the explicit entries in the order of the
\* configuration, followed by the one synthetic github.com provider exactly
\* when no explicit entry has host github.com (no host counts as
\* github.com); so some provider is for github.com, and the synthetic one,
\* when there, is last.
C10_ExplicitThenSynthetic ==
  cpc = "returned"
    => LET n == Len(cfg)
           hostOf(i) == IF cfg[i].host = Undefined THEN GithubCom
                                                   ELSE cfg[i].host
           explicit == \E i \in 1 .. n : hostOf(i) = GithubCom
       IN  /\ Len(providers) = (IF explicit THEN n ELSE n + 1)
           /\ \A i \in 1 .. n :
                /\ providers[i].host = hostOf(i)
                /\ providers[i].token = cfg[i].token
                /\ Truthy(cfg[i].apiBaseUrl)
                     => StartsWith(cfg[i].apiBaseUrl, providers[i].apiBaseUrl)
                /\ Truthy(cfg[i].rawBaseUrl)
                     => StartsWith(cfg[i].rawBaseUrl, providers[i].rawBaseUrl)
           /\ ~explicit => providers[n + 1] = Synthetic
           /\ \E i \in 1 .. Len(providers) : providers[i].host = GithubCom

C10_Witness ==
  /\ cpc = "returned"
  /\ Len(cfg) >= 2
  /\ Len(providers) = Len(cfg) + 1
  /\ providers[1].token # providers[2].token

\* C11: when an explicit entry has a host other than github.com and neither
\* apiBaseUrl nor rawBaseUrl, wherever it stands and whatever the other
\* entries are, readConfig never gets past that entry and never returns a
\* provider sequence; when the loop reaches the entry it throws.
C11_NoBaseUrlThrows ==
  \A i \in 1 .. Len(cfg) :
    (/\ cfg[i].host # Undefined
     /\ cfg[i].host # GithubCom
     /\ ~Truthy(cfg[i].apiBaseUrl)
     /\ ~Truthy(cfg[i].rawBaseUrl))
      => /\ cpc # "returned"
         /\ ci <= i
         /\ (ci = i /\ cpc # "reading") => cpc = "threw"

C11_Witness ==
  /\ cpc = "threw"
  /\ ci = 2
  /\ Len(providers) = 1
  /\ cfg[2].host # GithubCom
  /\ cfg[2].host # Undefined
  /\ cfg[2].apiBaseUrl = Undefined
  /\ cfg[2].rawBaseUrl = Undefined

\* ---------------------------------------------------- URL builders: claims
\* C12: for a target whose parsed form lacks the owner, the repository name
\* or the ref, or whose path kind is neither blob nor raw, getApiUrl and
\* getRawUrl both fail and give no URL; a URL is given only for a target
\* with all three parts and a path kind of blob or raw, and it is made of
\* those parts.
C12_MalformedTargetNoUrl ==
  LET malformed == \/ ~utarget.parses
                   \/ utarget.owner = ""
                   \/ utarget.name = ""
                   \/ utarget.ref = ""
                   \/ utarget.filepathtype \notin { "blob", "raw" }
      built(u) == u.kind \in { "api", "raw" }
      whole(u) == /\ u.owner = utarget.owner /\ u.owner # ""
                  /\ u.name = utarget.name /\ u.name # ""
                  /\ u.ref = utarget.ref /\ u.ref # ""
  IN  /\ (malformed /\ apiUrl # NotBuilt) => apiUrl = UrlError
      /\ (malformed /\ rawUrl # NotBuilt) => rawUrl = UrlError
      /\ built(apiUrl) => (~malformed /\ apiUrl.kind = "api" /\ whole(apiUrl))
      /\ built(rawUrl) => (~malformed /\ rawUrl.kind = "raw" /\ whole(rawUrl))

C12_Witness ==
  /\ utarget.parses
  /\ utarget.owner = "o"
  /\ utarget.name = "n"
  /\ utarget.ref = ""
  /\ utarget.filepathtype = "blob"
  /\ Truthy(uprovider.apiBaseUrl)
  /\ Truthy(uprovider.rawBaseUrl)
  /\ apiUrl = UrlError
  /\ rawUrl = UrlError

\* ------------------------------------------- calls side by side: claims
\* what one invocation, run alone, has in its list after n entries
RECURSIVE Alone(_, _, _)
Alone(b, ps, n) ==
  IF n = 0
  THEN << >>
  ELSE IF b[n].type # "Directory"
          /\ \E j \in 1 .. Len(ps) : StartsWith(b[n].path, TreePrefix(ps[j]))
       THEN Append(Alone(b, ps, n - 1), [ path |-> b[n].path, content |-> n ])
       ELSE Alone(b, ps, n - 1)

\* C16: however read calls and readTree invocations on one reader are
\* interleaved, the list of every invocation is, at each point, the list
\* it has when run alone on its own archive (no entry of another
\* invocation is in it), a read call issues the request its own target
\* gives and ends as its own response says, and no step changes the
\* reader's ProviderConfig.
C16_ListAlone ==
  /\ \A c \in Calls :
       inv[c].pc \in { "streaming", "finished" }
         => FilesSeenBy(c) =
              Alone(inv[c].body, ConcPaths,
                    IF inv[c].reading # 0 THEN inv[c].reading
                                          ELSE inv[c].delivered)
  /\ request.kind = "GET"
       => /\ request.url.owner = target.owner
          /\ request.url.base = config.apiBaseUrl
  /\ (rpc = "done" /\ transport = "response" /\ ~Ok(rstatus))
       => outcome = (IF rstatus = 404 THEN "NotFoundError" ELSE "RemoteError")
  /\ outcome = "bytes" => result = rbody

C16_ConfigKept == config' = config

C16_CallsIndependent == [](C16_ListAlone) /\ [][C16_ConfigKept]_vars

C16_Witness ==
  /\ inv[1].pc = "streaming"
  /\ inv[1].reading = 2
  /\ inv[2].pc = "streaming"
  /\ inv[2].delivered = 1
  /\ inv[1].body # inv[2].body
  /\ Len(arrays[1]) = 1
  /\ Len(arrays[2]) = 1
  /\ rpc = "buffering"

\* C18: every provider readConfig returns has apiBaseUrl or rawBaseUrl
\* present, and the endpoint the mode selection of read chooses for it is
\* one whose base URL is present: the URL read builds for a well-formed
\* target is built on a base URL that is set and not empty.
C18_ChosenBasePresent ==
  cpc = "returned"
    => \A i \in 1 .. Len(providers) :
         LET p == providers[i]
             wellFormed == [ parses |-> TRUE, owner |-> "o", name |-> "n",
                             ref |-> "m", filepathtype |-> "blob",
                             filepath |-> << "a" >> ]
             ghUrl == IF UseApi(p) THEN getApiUrl(wellFormed, p)
                                   ELSE getRawUrl(wellFormed, p)
         IN  /\ Truthy(p.apiBaseUrl) \/ Truthy(p.rawBaseUrl)
             /\ ghUrl.kind \in { "api", "raw" }
             /\ ghUrl.base # Undefined
             /\ ghUrl.base # << >>
             /\ ghUrl.kind = "api" => ghUrl.base = p.apiBaseUrl
             /\ ghUrl.kind = "raw" => ghUrl.base = p.rawBaseUrl

C18_Witness ==
  /\ cpc = "returned"
  /\ Len(cfg) >= 2
  /\ \E i \in 1 .. Len(providers) :
       /\ providers[i].apiBaseUrl = << >>
       /\ Truthy(providers[i].token)
  /\ \E i \in 1 .. Len(providers) :
       /\ providers[i].rawBaseUrl = Undefined
       /\ ~Truthy(providers[i].token)
====
